---- MODULE Spec2Model ----
(***************************************************************************)
(* AdaptiveIVSolver.solve_batch_iv (python/p2_implied_vol_calculator.py):  *)
(* the batched implied-volatility calibration loop.                        *)
(*                                                                         *)
(* Numbers.  float32 values are integers in fixed units, plus one value    *)
(* NaN that every arithmetic operation propagates and every comparison     *)
(* rejects, as IEEE arithmetic does.  A volatility is counted in           *)
(* thousandths (0.4 is 400, the clamp bounds 0.001 and 5.0 are 1 and       *)
(* 5000); a price is counted in units of half the convergence threshold    *)
(* (convergence_threshold is 2).                                           *)
(*                                                                         *)
(* A contract (S, K, T, r, is_call, market price) is represented by its    *)
(* pricing curve in sigma: price = base + vega * sigma, or NaN for a       *)
(* contract whose inputs make the Black-Scholes formula non-finite.        *)
(*                                                                         *)
(* The optimizer (torch.optim.Adam / AdaBelief) is a library: the model    *)
(* keeps, per element, the sign of its first moment exp_avg; a step has    *)
(* the sign of that moment and the size of the learning rate, the factor   *)
(* |m_hat| / (sqrt(v_hat) + eps) being taken as 1, its value for a steady  *)
(* gradient.                                                               *)
(***************************************************************************)
EXTENDS Integers, Sequences, FiniteSets, TLC

\* Bounds of the model.
MaxOptions == 2
MaxIterations == 4
MaxCheckEvery == 2

\* Program constants.
SigmaMin == 1
SigmaMax == 5000
convergence_threshold == 2
ProgressEvery == 100

NaN == -999999

IsNaN(x) == x = NaN

Abs(x) == IF x < 0 THEN -x ELSE x

Sign(x) == IF x > 0 THEN 1 ELSE IF x < 0 THEN -1 ELSE 0

\* Pricing curves of the contracts a batch is drawn from:
\*   an option worth nothing at any volatility (price 0, below the threshold),
\*   an option worth its intrinsic value at any volatility (expired in the money),
\*   an option whose price grows with volatility,
\*   a contract with a non-finite price (e.g. T < 0 or a NaN market price).
Contracts ==
    { [base |-> 0,  vega |-> 0, market |-> 5,   valid |-> TRUE],
      [base |-> 50, vega |-> 0, market |-> 50,  valid |-> TRUE],
      [base |-> 0,  vega |-> 1, market |-> 250, valid |-> TRUE],
      [base |-> 0,  vega |-> 0, market |-> 0,   valid |-> FALSE] }

InitialSigmas == {400, 9000}

OptimizerTypes == {"adam", "adabelief", "sgd"}

\* Learning rates, in thousandths: none, the default 0.001, and one larger than
\* the whole clamp range.
LearningRates == {0, 1, 6000}

Batches == UNION { [1..n -> Contracts] : n \in 0..MaxOptions }

VARIABLES
    pc,               \* "idle", "loop", "done", "error"
    contracts,        \* the batch: market_prices, S, K, T, r, is_call
    learning_rate,
    max_iterations,
    check_every,
    sigma,            \* the trainable volatility vector
    exp_avg,          \* optimizer state: sign of each element's first moment
    state_step,       \* optimizer state: number of steps taken
    converged,
    iterations_taken,
    previous_prices,
    model_prices,     \* the forward pass of the round last started
    price_change,     \* the price change computed by the check last executed
    iteration,        \* the loop variable: index of the round to run next
    loop_state,       \* "Running", "AllConverged", "MaxIterationsReached"
    result,           \* the returned dictionary, <<>> before the return
    error,            \* the exception raised, "" when none
    price_moved       \* history: the element's model price differed between two rounds

vars == <<pc, contracts, learning_rate, max_iterations, check_every, sigma,
          exp_avg, state_step, converged, iterations_taken, previous_prices,
          model_prices, price_change, iteration, loop_state, result, error,
          price_moved>>

n_options == Len(contracts)

Elements == 1..n_options

\* Black-Scholes price of contract c at volatility s.
black_scholes(c, s) ==
    IF ~c.valid \/ IsNaN(s) THEN NaN ELSE c.base + c.vega * s

\* The forward pass over the batch at volatility vector s.
Forward(s) == [i \in Elements |-> black_scholes(contracts[i], s[i])]

\* Sign of d loss / d sigma_i for loss = mean((model_prices - market_prices)^2):
\* 2 * (p_i - market_i) / n * d p_i / d sigma_i, NaN when the price is.
Gradient(p, i) ==
    IF IsNaN(p[i]) THEN NaN
    ELSE Sign((p[i] - contracts[i].market) * contracts[i].vega)

\* The signs m <- beta1 * m + (1 - beta1) * g can take, 0 < beta1 < 1.
NextMoment(m, g) ==
    IF IsNaN(m) \/ IsNaN(g) THEN {NaN}
    ELSE IF g = 0 THEN {m}
    ELSE IF m = 0 \/ m = g THEN {g}
    ELSE {-1, 0, 1}

\* Mutant of Clamp: the upper bound is not applied.
ClampFloorOnly(x) ==
    IF IsNaN(x) THEN NaN ELSE IF x < SigmaMin THEN SigmaMin ELSE x

\* torch.clamp(x, 0.001, 5.0); a NaN stays a NaN.
Clamp(x) ==
    IF IsNaN(x) THEN NaN
    ELSE IF x < SigmaMin THEN SigmaMin
    ELSE IF x > SigmaMax THEN SigmaMax
    ELSE x

\* optimizer.step(): element i moves against the sign m of its first moment.
OptimizerStep(i, m) ==
    IF IsNaN(m) \/ IsNaN(sigma[i]) THEN NaN ELSE sigma[i] - m * learning_rate

\* Mutant of StepElement: a converged element is frozen.
StepUnconvergedOnly(i, m) ==
    IF converged[i] THEN sigma[i] ELSE Clamp(OptimizerStep(i, m))

\* One element's volatility after the optimizer step and the clamp.
StepElement(i, m) == Clamp(OptimizerStep(i, m))

\* Mutant of CheckedPrices: the check recomputes the prices from the vector
\* after the step and the clamp.
RecomputedPrices(p, s) == Forward(s)

\* The prices the convergence check reads: the round's forward pass p,
\* computed before the optimizer step (s is the vector after step and clamp).
CheckedPrices(p, s) == p

\* price_change = |model_prices - previous_prices|
PriceChange(p, i) ==
    IF IsNaN(p[i]) \/ IsNaN(previous_prices[i]) THEN NaN
    ELSE Abs(p[i] - previous_prices[i])

\* price_change < convergence_threshold
Criterion(p, i) ==
    ~IsNaN(PriceChange(p, i)) /\ PriceChange(p, i) < convergence_threshold

\* Mutant of NewlyConverged: the mask forgets the elements already converged.
NewlyConvergedUnmasked(p, i) == Criterion(p, i)

\* newly_converged = (price_change < convergence_threshold) & (~converged)
NewlyConverged(p, i) == Criterion(p, i) /\ ~converged[i]

\* Mutant of ConvergedAfter: the flag is overwritten by the current criterion.
ConvergedOverwritten(p, i) == Criterion(p, i)

\* converged = converged | newly_converged
ConvergedAfter(p, i) == converged[i] \/ NewlyConverged(p, i)

\* iterations_taken[newly_converged] = iteration
IterationsAfter(p, i) ==
    IF NewlyConverged(p, i) THEN iteration ELSE iterations_taken[i]

\* iteration % check_every == 0
IsCheckIteration(it) == it % check_every = 0

\* iteration % 100 == 0
IsProgressIteration(it) == it % ProgressEvery = 0

\* Mutant of AllConverged: the early stop reads the flags as they were before
\* the check.
AllConvergedBeforeCheck(c) == \A i \in DOMAIN c : converged[i]

\* converged.all()
AllConverged(c) == \A i \in DOMAIN c : c[i]

\* Mutant of LoopContinues: one round too many.
LoopContinuesOffByOne == iteration <= max_iterations

\* for iteration in range(max_iterations)
LoopContinues == iteration < max_iterations

\* |final_prices - market_prices|
PricingError(p, i) ==
    IF IsNaN(p[i]) THEN NaN ELSE Abs(p[i] - contracts[i].market)

\* The dictionary solve_batch_iv returns, from the vector s and the flags c, t.
Result(s, c, t) ==
    [sigma |-> s,
     converged |-> c,
     iterations |-> t,
     final_prices |-> Forward(s),
     pricing_errors |-> [i \in Elements |-> PricingError(Forward(s), i)]]

Init ==
    /\ pc = "idle"
    /\ contracts = <<>>
    /\ learning_rate = 0
    /\ max_iterations = 0
    /\ check_every = 1
    /\ sigma = <<>>
    /\ exp_avg = <<>>
    /\ state_step = 0
    /\ converged = <<>>
    /\ iterations_taken = <<>>
    /\ previous_prices = <<>>
    /\ model_prices = <<>>
    /\ price_change = <<>>
    /\ iteration = 0
    /\ loop_state = "Running"
    /\ result = <<>>
    /\ error = ""
    /\ price_moved = <<>>

\* AdaptiveIVSolver(optimizer_type = ot).solve_batch_iv(...) up to the loop,
\* with a supported optimizer.
Start ==
    /\ pc = "idle"
    /\ \E ot \in OptimizerTypes : ot \in {"adam", "adabelief"}
    /\ \E batch \in Batches, s0 \in InitialSigmas, lr \in LearningRates,
          mi \in 0..MaxIterations, ce \in 1..MaxCheckEvery :
          /\ contracts' = batch
          /\ learning_rate' = lr
          /\ max_iterations' = mi
          /\ check_every' = ce
          /\ sigma' = [i \in 1..Len(batch) |-> s0]
          /\ exp_avg' = [i \in 1..Len(batch) |-> 0]
          /\ converged' = [i \in 1..Len(batch) |-> FALSE]
          /\ iterations_taken' = [i \in 1..Len(batch) |-> 0]
          /\ previous_prices' = [i \in 1..Len(batch) |-> 0]
          /\ price_moved' = [i \in 1..Len(batch) |-> FALSE]
    /\ state_step' = 0
    /\ iteration' = 0
    /\ pc' = "loop"
    /\ UNCHANGED <<model_prices, price_change, loop_state, result, error>>

\* AdaptiveIVSolver(optimizer_type = ot).solve_batch_iv(...) with an unknown
\* optimizer: ValueError before the loop.
UnknownOptimizer ==
    /\ pc = "idle"
    /\ \E ot \in OptimizerTypes : ot \notin {"adam", "adabelief"}
    /\ pc' = "error"
    /\ error' = "ValueError"
    /\ UNCHANGED <<contracts, learning_rate, max_iterations, check_every, sigma,
                   exp_avg, state_step, converged, iterations_taken,
                   previous_prices, model_prices, price_change, iteration,
                   loop_state, result, price_moved>>

\* The first-moment signs the optimizer step can produce in this round.
MomentChoices ==
    LET p == Forward(sigma) IN
    { m \in [Elements -> {-1, 0, 1, NaN}] :
        \A i \in Elements : m[i] \in NextMoment(exp_avg[i], Gradient(p, i)) }

\* Steps 1-5 of a round: forward pass, loss, backward pass, optimizer step, clamp.
Update(m) ==
    LET p == Forward(sigma) IN
    /\ model_prices' = p
    /\ exp_avg' = m
    /\ sigma' = [i \in Elements |-> StepElement(i, m[i])]
    /\ state_step' = state_step + 1
    /\ price_moved' =
          [i \in Elements |->
              price_moved[i]
              \/ IsNaN(p[i])
              \/ (state_step > 0 /\ p[i] # model_prices[i])]

\* The convergence bookkeeping of a check iteration.
Check ==
    LET p == CheckedPrices(Forward(sigma), sigma') IN
    /\ price_change' = [i \in Elements |-> PriceChange(p, i)]
    /\ converged' = [i \in Elements |-> ConvergedAfter(p, i)]
    /\ iterations_taken' = [i \in Elements |-> IterationsAfter(p, i)]
    /\ previous_prices' = p

\* A round that is no check iteration.
RoundPlain ==
    /\ pc = "loop"
    /\ LoopContinues
    /\ ~IsCheckIteration(iteration)
    /\ \E m \in MomentChoices : Update(m)
    /\ iteration' = iteration + 1
    /\ UNCHANGED <<pc, contracts, learning_rate, max_iterations, check_every,
                   converged, iterations_taken, previous_prices, price_change,
                   loop_state, result, error>>

\* A check iteration after which some element is still unconverged.
RoundCheck ==
    /\ pc = "loop"
    /\ LoopContinues
    /\ IsCheckIteration(iteration)
    /\ ~(IsProgressIteration(iteration) /\ n_options = 0)
    /\ \E m \in MomentChoices : Update(m)
    /\ Check
    /\ ~AllConverged(converged')
    /\ iteration' = iteration + 1
    /\ UNCHANGED <<pc, contracts, learning_rate, max_iterations, check_every,
                   loop_state, result, error>>

\* A check iteration after which every element is converged: break, then the
\* final statistics and the return.
RoundBreak ==
    /\ pc = "loop"
    /\ LoopContinues
    /\ IsCheckIteration(iteration)
    /\ ~(IsProgressIteration(iteration) /\ n_options = 0)
    /\ \E m \in MomentChoices : Update(m)
    /\ Check
    /\ AllConverged(converged')
    /\ pc' = "done"
    /\ loop_state' = "AllConverged"
    /\ result' = Result(sigma', converged', iterations_taken')
    /\ UNCHANGED <<contracts, learning_rate, max_iterations, check_every,
                   iteration, error>>

\* A check iteration on an empty batch that prints progress:
\* 100 * n_converged / n_options raises ZeroDivisionError inside the loop.
RoundRaise ==
    /\ pc = "loop"
    /\ LoopContinues
    /\ IsCheckIteration(iteration)
    /\ IsProgressIteration(iteration)
    /\ n_options = 0
    /\ \E m \in MomentChoices : Update(m)
    /\ Check
    /\ pc' = "error"
    /\ error' = "ZeroDivisionError"
    /\ UNCHANGED <<contracts, learning_rate, max_iterations, check_every,
                   iteration, loop_state, result>>

\* The loop's else branch on a non-empty batch, the final statistics, the return.
Exhausted ==
    /\ pc = "loop"
    /\ ~LoopContinues
    /\ n_options > 0
    /\ pc' = "done"
    /\ loop_state' = "MaxIterationsReached"
    /\ result' = Result(sigma, converged, iterations_taken)
    /\ UNCHANGED <<contracts, learning_rate, max_iterations, check_every, sigma,
                   exp_avg, state_step, converged, iterations_taken,
                   previous_prices, model_prices, price_change, iteration, error,
                   price_moved>>

\* The loop's else branch on an empty batch: the convergence percentage
\* 100 * n_converged / n_options raises ZeroDivisionError.
ExhaustedRaise ==
    /\ pc = "loop"
    /\ ~LoopContinues
    /\ n_options = 0
    /\ pc' = "error"
    /\ error' = "ZeroDivisionError"
    /\ loop_state' = "MaxIterationsReached"
    /\ UNCHANGED <<contracts, learning_rate, max_iterations, check_every, sigma,
                   exp_avg, state_step, converged, iterations_taken,
                   previous_prices, model_prices, price_change, iteration, result,
                   price_moved>>

Next ==
    \/ Start
    \/ UnknownOptimizer
    \/ RoundPlain
    \/ RoundCheck
    \/ RoundBreak
    \/ RoundRaise
    \/ ExhaustedRaise
    \/ Exhausted

Spec == Init /\ [][Next]_vars

----------------------------------------------------------------------------
\* The check executed most recently ran at this iteration index.
LastCheck == ((state_step - 1) \div check_every) * check_every

InRange(x) == ~IsNaN(x) /\ SigmaMin <= x /\ x <= SigmaMax

\* A step of the loop that runs a convergence check starts in such a state.
AtCheckRound == pc = "loop" /\ LoopContinues /\ IsCheckIteration(iteration)

\* C1: converged is monotonic: an element whose flag is true keeps it in every
\* later round, whatever its later model prices, and the returned flags are
\* the loop's flags.
ConvergedMonotonic ==
    [][/\ \A i \in DOMAIN converged :
             converged[i] => (i \in DOMAIN converged' /\ converged'[i])
       /\ (pc' = "done" => result'.converged = converged')]_vars

\* C1 witness: a converged element whose price moved by at least the threshold
\* between the two most recent checks.
ConvergedMonotonicWitness ==
    \E i \in Elements :
        /\ converged[i]
        /\ state_step > 0
        /\ ~IsNaN(price_change[i])
        /\ price_change[i] >= convergence_threshold
        /\ LastCheck > iterations_taken[i]

EarlyStop ==
    n_options > 0 =>
        /\ (pc = "loop" => \E i \in Elements : ~converged[i])
        /\ (loop_state = "AllConverged" => pc = "done" /\ AllConverged(converged))
        /\ (pc = "done" /\ AllConverged(converged) =>
               /\ loop_state = "AllConverged"
               /\ state_step = iteration + 1
               /\ state_step <= max_iterations
               /\ IsCheckIteration(iteration)
               /\ \E i \in Elements : iterations_taken[i] = iteration
               /\ \A i \in Elements : iterations_taken[i] <= iteration)

\* C3 witness: two elements converged at different checks and the loop
\* stopped before max_iterations rounds.
EarlyStopWitness ==
    /\ pc = "done"
    /\ loop_state = "AllConverged"
    /\ n_options = 2
    /\ iterations_taken[1] # iterations_taken[2]
    /\ state_step < max_iterations

IterationsWrittenOnce ==
    [][/\ \A i \in DOMAIN converged :
             converged[i] => iterations_taken'[i] = iterations_taken[i]
       /\ \A i \in DOMAIN converged :
             ~converged[i] =>
                IF AtCheckRound /\ Criterion(Forward(sigma), i)
                THEN converged'[i] /\ iterations_taken'[i] = iteration
                ELSE ~converged'[i] /\ iterations_taken'[i] = 0
       /\ (pc' = "done" => result'.iterations = iterations_taken')]_vars

\* C5 witness: a converged element met the criterion again at a later check
\* and kept the iteration index of its first.
IterationsWrittenOnceWitness ==
    \E i \in Elements :
        /\ converged[i]
        /\ state_step > 0
        /\ ~IsNaN(price_change[i])
        /\ price_change[i] < convergence_threshold
        /\ LastCheck > iterations_taken[i]
        /\ iterations_taken[i] > 0

\* C6 as stated: a non-finite value is never stored into the volatility vector.
SigmaStaysFinite == \A i \in DOMAIN sigma : ~IsNaN(sigma[i])

\* C7 as stated: an empty batch is rejected before any round is executed,
\* never inside the loop or in the result summary.
EmptyBatchRejectedBeforeLoop ==
    (n_options = 0 /\ error # "") =>
        /\ state_step = 0
        /\ loop_state = "Running"

\* C8 as stated: the price a check compares and stores is the price of the
\* vector as it is after that round's optimizer step and clamp.
CheckUsesUpdatedVector ==
    [][AtCheckRound => previous_prices' = Forward(sigma')]_vars

\* C8 as amended: the price a check compares and stores is the round's forward
\* pass, the price of the vector as it was before that round's optimizer step.
CheckUsesForwardPass ==
    [][AtCheckRound =>
          /\ previous_prices' = Forward(sigma)
          /\ model_prices' = Forward(sigma)
          /\ \A i \in Elements :
                /\ price_change'[i] = PriceChange(Forward(sigma), i)
                /\ converged'[i] = (converged[i] \/ Criterion(Forward(sigma), i))]_vars

\* C8 witness: after a check, the stored checkpoint price of an element is its
\* forward-pass price and differs from the price of its current volatility.
CheckUsesForwardPassWitness ==
    /\ pc = "loop"
    /\ state_step > 0
    /\ LastCheck = state_step - 1
    /\ \E i \in Elements :
          /\ ~IsNaN(sigma[i])
          /\ previous_prices[i] = model_prices[i]
          /\ previous_prices[i] # black_scholes(contracts[i], sigma[i])

\* C9: with max_iterations > check_every, an element whose model price never
\* changed from round to round is converged with recorded iteration
\* check_every, whatever its price.
ConstantPriceConvergesAtFirstCheck ==
    (pc = "done" /\ max_iterations > check_every) =>
        \A i \in Elements :
            ~price_moved[i] =>
                /\ converged[i]
                /\ iterations_taken[i] = check_every
                /\ result.iterations[i] = check_every

\* C10: every round steps the optimizer once and updates every element,
\* converged or not: its moment follows its own gradient and its volatility is
\* the clamped step along that moment.
ConvergedNotFrozen ==
    [][(pc = "loop" /\ LoopContinues) =>
          /\ state_step' = state_step + 1
          /\ \A i \in Elements :
                /\ exp_avg'[i] \in
                      NextMoment(exp_avg[i], Gradient(Forward(sigma), i))
                /\ sigma'[i] =
                      Clamp(IF IsNaN(exp_avg'[i]) THEN NaN
                            ELSE sigma[i] - exp_avg'[i] * learning_rate)]_vars

\* C10 witness: an element converged at an earlier round had its volatility
\* moved by the most recent round.
ConvergedNotFrozenWitness ==
    \E i \in Elements :
        /\ converged[i]
        /\ state_step > iterations_taken[i] + 1
        /\ ~IsNaN(sigma[i])
        /\ model_prices[i] # black_scholes(contracts[i], sigma[i])
====
